---- MODULE Spec2Model ----
(***************************************************************************)
(* Model of the ollama-proxy server (src/server.js; src/unnamed/part_000   *)
(* is the earlier variant with the same gate, augmenter and forwarder but  *)
(* without warmup/keepalive).                                              *)
(*                                                                         *)
(* Strings that the code inspects piecewise (paths, header values, model   *)
(* names) are sequences of tokens, so that concatenation, startsWith and   *)
(* includes are computed rather than assumed.  JSON scalars are kept as    *)
(* their literal text ("true", "\"true\"", "1", "null").  A JSON object is *)
(* a function from field names to values; a field the object does not own  *)
(* is outside its DOMAIN.                                                  *)
(***************************************************************************)
EXTENDS Integers, Sequences, FiniteSets, TLC

\* ------------------------------------------------------------------ bounds
MaxTicks == 2

\* --------------------------------------------------------------- constants
OLLAMA_URL == <<"http://localhost:11434">>
BEARER_TOKEN == <<"tok">>
MODEL_NAME == <<"mistral", ":", "7b">>

\* ----------------------------------------------------------------- helpers
EmptyObject == [k \in {} |-> "null"]

startsWith(s, prefix) ==
    /\ Len(s) >= Len(prefix)
    /\ SubSeq(s, 1, Len(prefix)) = prefix

includes(s, sub) ==
    \E i \in 1..(Len(s) - Len(sub) + 1) : SubSeq(s, i, i + Len(sub) - 1) = sub

\* JavaScript truthiness of a JSON scalar given by its literal text
Falsy == {"false", "null", "0", "\"\""}

\* { ...a, ...b }
Spread(a, b) ==
    [k \in (DOMAIN a) \union (DOMAIN b) |-> IF k \in DOMAIN b THEN b[k] ELSE a[k]]

\* obj.field = value
SetField(obj, field, value) ==
    [k \in (DOMAIN obj) \union {field} |-> IF k = field THEN value ELSE obj[k]]

\* ------------------------------------------------------- authentication gate
\* the condition of validateToken's if: !auth || auth !== `Bearer ${BEARER_TOKEN}`
TokenRejectedPresenceOnly(auth) ==
    \/ ~auth.present
    \/ auth.value = <<>>

TokenRejected(auth) ==
    \/ ~auth.present
    \/ auth.value = <<>>
    \/ auth.value # <<"Bearer", " ">> \o BEARER_TOKEN

\* ------------------------------------------------------- parameter augmenter
getOptimizedParams ==
    [num_ctx |-> "4096", num_batch |-> "512", num_gpu |-> "-1", main_gpu |-> "0",
     use_mmap |-> "true", num_thread |-> "8", temperature |-> "0.7",
     top_k |-> "40", top_p |-> "0.9", repeat_penalty |-> "1.1",
     penalize_newline |-> "false"]

\* let payload = req.method === 'GET' ? {} : (req.body || {})
OriginalPayload(method, body) ==
    IF method = "GET" THEN EmptyObject ELSE body

\* req.method === 'POST' && (req.path.includes('/generate') || req.path.includes('/chat'))
IsAugmented(method, path) ==
    /\ method = "POST"
    /\ \/ includes(path, <<"/", "generate">>)
       \/ includes(path, <<"/", "chat">>)

\* if (!payload.hasOwnProperty('stream') || payload.stream !== true) payload.stream = false
ForceStreamTruthy(payload) ==
    IF ("stream" \notin DOMAIN payload) \/ (payload["stream"] \in Falsy)
    THEN SetField(payload, "stream", "false")
    ELSE payload

ForceStream(payload) ==
    IF ("stream" \notin DOMAIN payload) \/ (payload["stream"] # "true")
    THEN SetField(payload, "stream", "false")
    ELSE payload

\* payload.options || {}
CallerOptions(payload) ==
    IF ("options" \notin DOMAIN payload) \/ (payload["options"].kind = "null")
    THEN EmptyObject
    ELSE payload["options"].map

\* payload.options = { ...optimizedParams, ...(payload.options || {}) }
MergeOptionsDefaultsWin(payload) ==
    SetField(payload, "options",
             [kind |-> "object", map |-> Spread(CallerOptions(payload), getOptimizedParams)])

MergeOptions(payload) ==
    SetField(payload, "options",
             [kind |-> "object", map |-> Spread(getOptimizedParams, CallerOptions(payload))])

AugmentedPayload(method, path, body) ==
    IF IsAugmented(method, path)
    THEN MergeOptions(ForceStream(OriginalPayload(method, body)))
    ELSE OriginalPayload(method, body)

\* if (payload.stream)
StreamRequested(payload) ==
    /\ "stream" \in DOMAIN payload
    /\ payload["stream"] \notin Falsy

\* ------------------------------------------------------------------ forwarder
\* Express's req.path: the pathname of the request URL, without the query string
ReqPath(url) ==
    IF \E i \in 1..Len(url) : url[i] = "?"
    THEN SubSeq(url, 1, (CHOOSE i \in 1..Len(url) :
                            /\ url[i] = "?"
                            /\ \A j \in 1..(i - 1) : url[j] # "?") - 1)
    ELSE url

AxiosConfig(method, path, payload) ==
    [method |-> method,
     url |-> OLLAMA_URL \o path,
     hasData |-> (method # "GET" /\ method # "HEAD"),
     data |-> IF method # "GET" /\ method # "HEAD" THEN payload ELSE EmptyObject,
     responseType |-> IF StreamRequested(payload) THEN "stream" ELSE "json"]

\* ------------------------------------------------------------------- routes
\* app.get / app.post / app.delete / app.head registrations, all with validateToken
ApiPath(name) == <<"/", "api", "/", name>>

Routes ==
    { [method |-> "GET", pattern |-> ApiPath(n), param |-> FALSE] :
        n \in {"version", "tags", "ps"} }
    \union
    { [method |-> "POST", pattern |-> ApiPath(n), param |-> FALSE] :
        n \in {"generate", "chat", "create", "pull", "push", "embed",
               "embeddings", "show", "copy"} }
    \union
    { [method |-> "DELETE", pattern |-> ApiPath("delete"), param |-> FALSE] }
    \union
    { [method |-> m, pattern |-> ApiPath("blobs") \o <<"/">>, param |-> TRUE] :
        m \in {"HEAD", "POST"} }

\* Express route matching: a static pattern matches the path exactly, a
\* trailing :digest parameter matches one non-empty segment without '/'
RouteMatches(route, method, path) ==
    /\ route.method = method
    /\ IF route.param
       THEN /\ startsWith(path, route.pattern)
            /\ Len(path) > Len(route.pattern)
            /\ \A i \in (Len(route.pattern) + 1)..Len(path) : path[i] # "/"
       ELSE path = route.pattern

\* ------------------------------------------------------------------- inputs
Digests == { <<"sha256:", "ab12">>, <<"chat", "01">>, <<"generate", "01">> }

Queries == { <<>>, <<"?", "verbose=1">> }

Paths ==
    { r.pattern : r \in { x \in Routes : ~x.param } }
    \union { r.pattern \o d : r \in { x \in Routes : x.param }, d \in Digests }

AuthHeaders ==
    { [present |-> FALSE, value |-> <<>>],
      [present |-> TRUE, value |-> <<>>],
      [present |-> TRUE, value |-> <<"Bearer", " ", "tok">>],
      [present |-> TRUE, value |-> <<"Bearer", " ", "bad">>],
      [present |-> TRUE, value |-> <<"bearer", " ", "tok">>],
      [present |-> TRUE, value |-> <<"tok">>] }

StreamValues == {"absent", "true", "false", "\"true\"", "1", "null"}

OptionsValues ==
    { [kind |-> "absent", map |-> EmptyObject],
      [kind |-> "null", map |-> EmptyObject],
      [kind |-> "object", map |-> ("temperature" :> "0.2")],
      [kind |-> "object", map |-> ("temperature" :> "0.2") @@ ("seed" :> "42")] }

BodyOf(s, o) ==
    ("model" :> "\"mistral:7b\"")
    @@ (IF s = "absent" THEN EmptyObject ELSE ("stream" :> s))
    @@ (IF o.kind = "absent" THEN EmptyObject ELSE ("options" :> o))

\* req.body after express.json(); a request without a JSON body has {}
Bodies == { BodyOf(s, o) : s \in StreamValues, o \in OptionsValues } \union { EmptyObject }

\* bodies carried by requests whose body the backend does not read
BareBodies == { EmptyObject, BodyOf("true", [kind |-> "absent", map |-> EmptyObject]) }

Requests ==
    { [method |-> m, url |-> p \o q, auth |-> a, body |-> b] :
        m \in {"GET", "POST", "DELETE", "HEAD"}, p \in Paths, q \in Queries,
        a \in AuthHeaders, b \in Bodies }

\* the requests that reach the protected handlers
ProtectedRequests ==
    { r \in Requests :
        /\ \E route \in Routes : RouteMatches(route, r.method, ReqPath(r.url))
        /\ (r.method # "POST") => (r.body \in BareBodies) }

NoRequest ==
    [method |-> "NONE", url |-> <<>>, auth |-> [present |-> FALSE, value |-> <<>>],
     body |-> EmptyObject]

\* what the backend does with one outbound call
BackendOutcomes ==
    { [kind |-> "ok", status |-> s, code |-> "none"] : s \in {200, 201} }
    \union { [kind |-> "status", status |-> s, code |-> "ERR_BAD_REQUEST"] : s \in {404, 500} }
    \union { [kind |-> "neterr", status |-> 0, code |-> c] :
                c \in {"ECONNREFUSED", "EHOSTUNREACH", "ENOTFOUND", "ECONNABORTED"} }

NoOutcome == [kind |-> "none", status |-> 0, code |-> "none"]

NoConfig ==
    [method |-> "NONE", url |-> <<>>, hasData |-> FALSE, data |-> EmptyObject,
     responseType |-> "json"]

\* a fresh ServerResponse: statusCode defaults to 200, nothing sent
FreshResponse == [statusCode |-> 200, body |-> "none", via |-> "none"]

\* the web framework under the async handler: Express 4 ignores a rejected
\* handler promise, Express 5 passes it to the default error handler
Frameworks == {"express4", "express5"}

\* ----------------------------------------------------------------- responses
\* the body axios hands over: a stream object when responseType is 'stream'
ResponseData(config, outcome) ==
    [isStream |-> (config.responseType = "stream"),
     content |-> IF outcome.kind = "ok" THEN "ollama-body" ELSE "ollama-error-body"]

\* the try block after the await: pipe when streaming, res.json otherwise
SuccessResponse(res, streaming, data) ==
    IF streaming
    THEN [res |-> [statusCode |-> res.statusCode, body |-> data.content, via |-> "pipe"],
          sent |-> 1, threw |-> FALSE]
    ELSE [res |-> [statusCode |-> res.statusCode, body |-> data.content, via |-> "json"],
          sent |-> 1, threw |-> FALSE]

\* the catch block: error.response, then error.code === 'ECONNREFUSED', then the rest
CatchResponseRefusedAs500(res, outcome, data) ==
    IF outcome.kind = "status"
    THEN IF data.isStream
         THEN [res |-> [statusCode |-> outcome.status, body |-> "none", via |-> "none"],
               sent |-> 0, threw |-> TRUE]
         ELSE [res |-> [statusCode |-> outcome.status, body |-> data.content, via |-> "json"],
               sent |-> 1, threw |-> FALSE]
    ELSE [res |-> [statusCode |-> 500, body |-> "internal-server-error", via |-> "json"],
          sent |-> 1, threw |-> FALSE]

CatchResponse(res, outcome, data) ==
    IF outcome.kind = "status"
    THEN \* res.status(s).json(stream object): JSON.stringify throws on the
         \* circular stream object after the status was set
         IF data.isStream
         THEN [res |-> [statusCode |-> outcome.status, body |-> "none", via |-> "none"],
               sent |-> 0, threw |-> TRUE]
         ELSE [res |-> [statusCode |-> outcome.status, body |-> data.content, via |-> "json"],
               sent |-> 1, threw |-> FALSE]
    ELSE IF outcome.code = "ECONNREFUSED"
    THEN [res |-> [statusCode |-> 503, body |-> "service-unavailable", via |-> "json"],
          sent |-> 1, threw |-> FALSE]
    ELSE [res |-> [statusCode |-> 500, body |-> "internal-server-error", via |-> "json"],
          sent |-> 1, threw |-> FALSE]

\* a rejected handler promise: unanswered under Express 4; under Express 5 the
\* default error handler answers with res.statusCode when it is 4xx/5xx, else 500
RejectedHandler(fw, r) ==
    IF fw = "express4"
    THEN r
    ELSE [res |-> [statusCode |-> IF r.res.statusCode >= 400 /\ r.res.statusCode <= 599
                                   THEN r.res.statusCode ELSE 500,
                    body |-> "framework-error-page", via |-> "errorhandler"],
          sent |-> 1, threw |-> TRUE]

\* -------------------------------------------------------------------- warmup
\* tagsResponse.data.models.some(model =>
\*     model.name === MODEL_NAME || model.name.startsWith(MODEL_NAME + ':'))
modelExistsAnyPrefix(models) ==
    \E name \in models : name = MODEL_NAME \/ startsWith(name, MODEL_NAME)

modelExists(models) ==
    \E name \in models : name = MODEL_NAME \/ startsWith(name, MODEL_NAME \o <<":">>)

\* listings the backend's /api/tags may return
TagListings ==
    { {},
      { <<"mistral", ":", "7b">> },
      { <<"llama3">>, <<"mistral", ":", "7b", ":", "q4">> },
      { <<"mistral", ":", "7b", "x">>, <<"mistral">>, <<"llama3">> } }

\* --------------------------------------------------------------------- state
VARIABLES
    spc,            \* where startServer / warmupModel is
    listening,      \* app.listen has been called
    warm,           \* what the backend answered to each warmup step
    keepaliveActive,\* startKeepalive registered the interval timer
    ticks,          \* times the interval callback fired
    pingsIssued,    \* keepalive generations posted to the backend
    pingInFlight,   \* a keepalive post is awaiting its answer
    lastPing,       \* outcome of the latest settled keepalive post
    rpc,            \* where the request in hand is
    req,            \* the inbound request as received
    nextCalled,     \* validateToken called next() for it
    handlerRan,     \* proxyHandler was entered for it
    payload,        \* proxyHandler's payload
    axiosConfig,    \* the outbound call as configured
    backendCalls,   \* outbound calls made for it
    outcome,        \* what the backend did with the call
    framework,      \* the framework outcome taken when the handler rejected
    res,            \* the response object
    sent            \* responses sent for it

startupVars == <<spc, listening, warm, keepaliveActive, ticks, pingsIssued,
                 pingInFlight, lastPing>>
requestVars == <<rpc, req, nextCalled, handlerRan, payload, axiosConfig,
                 backendCalls, outcome, framework, res, sent>>
vars == <<spc, listening, warm, keepaliveActive, ticks, pingsIssued,
          pingInFlight, lastPing, rpc, req, nextCalled, handlerRan, payload,
          axiosConfig, backendCalls, outcome, framework, res, sent>>

NoWarm == [version |-> "pending", tags |-> "pending", models |-> {}, generate |-> "pending"]

Init ==
    /\ spc = "boot"
    /\ listening = FALSE
    /\ warm = NoWarm
    /\ keepaliveActive = FALSE
    /\ ticks = 0
    /\ pingsIssued = 0
    /\ pingInFlight = FALSE
    /\ lastPing = "none"
    /\ rpc = "idle"
    /\ req = NoRequest
    /\ nextCalled = FALSE
    /\ handlerRan = FALSE
    /\ payload = EmptyObject
    /\ axiosConfig = NoConfig
    /\ backendCalls = 0
    /\ outcome = NoOutcome
    /\ framework = "none"
    /\ res = FreshResponse
    /\ sent = 0

\* ------------------------------------------------------------ request actions
\* a request arrives at a protected route of the listening server
Receive ==
    /\ listening
    /\ rpc = "idle"
    /\ \E r \in ProtectedRequests :
        /\ req' = r
        /\ rpc' = "gate"
    /\ UNCHANGED <<nextCalled, handlerRan, payload, axiosConfig, backendCalls,
                   outcome, framework, res, sent>>
    /\ UNCHANGED startupVars

\* the HTTP transaction is over (answered, or given up by the client); the
\* request, its response object and the handler's locals go away with it
Close ==
    /\ rpc = "done"
    /\ rpc' = "idle"
    /\ req' = NoRequest
    /\ nextCalled' = FALSE
    /\ handlerRan' = FALSE
    /\ payload' = EmptyObject
    /\ axiosConfig' = NoConfig
    /\ backendCalls' = 0
    /\ outcome' = NoOutcome
    /\ framework' = "none"
    /\ res' = FreshResponse
    /\ sent' = 0
    /\ UNCHANGED startupVars

validateToken ==
    /\ rpc = "gate"
    /\ IF TokenRejected(req.auth)
       THEN /\ res' = [statusCode |-> 401, body |-> "unauthorized", via |-> "json"]
            /\ sent' = sent + 1
            /\ rpc' = "done"
            /\ UNCHANGED nextCalled
       ELSE /\ nextCalled' = TRUE
            /\ rpc' = "handler"
            /\ UNCHANGED <<res, sent>>
    /\ UNCHANGED <<req, handlerRan, payload, axiosConfig, backendCalls, outcome, framework>>
    /\ UNCHANGED startupVars

\* proxyHandler up to `await axios(axiosConfig)`
proxyHandler ==
    /\ rpc = "handler"
    /\ handlerRan' = TRUE
    /\ payload' = AugmentedPayload(req.method, ReqPath(req.url), req.body)
    /\ axiosConfig' = AxiosConfig(req.method, ReqPath(req.url), payload')
    /\ backendCalls' = backendCalls + 1
    /\ rpc' = "awaiting"
    /\ UNCHANGED <<req, nextCalled, outcome, framework, res, sent>>
    /\ UNCHANGED startupVars

\* proxyHandler from the await on: the backend answered with a 2xx status
proxyHandlerResolved ==
    /\ rpc = "awaiting"
    /\ \E o \in { x \in BackendOutcomes : x.kind = "ok" } :
        LET r == SuccessResponse(res, StreamRequested(payload), ResponseData(axiosConfig, o))
        IN  /\ outcome' = o
            /\ res' = r.res
            /\ sent' = sent + r.sent
    /\ rpc' = "done"
    /\ UNCHANGED <<req, nextCalled, handlerRan, payload, axiosConfig, backendCalls, framework>>
    /\ UNCHANGED startupVars

\* proxyHandler from the await on: axios rejected and the catch block ran
proxyHandlerRejected ==
    /\ rpc = "awaiting"
    /\ \E o \in { x \in BackendOutcomes : x.kind # "ok" } :
        LET c == CatchResponse(res, o, ResponseData(axiosConfig, o))
        IN  /\ outcome' = o
            /\ IF c.threw
               THEN \E fw \in Frameworks :
                       /\ framework' = fw
                       /\ res' = RejectedHandler(fw, c).res
                       /\ sent' = sent + RejectedHandler(fw, c).sent
               ELSE /\ framework' = "none"
                    /\ res' = c.res
                    /\ sent' = sent + c.sent
    /\ rpc' = "done"
    /\ UNCHANGED <<req, nextCalled, handlerRan, payload, axiosConfig, backendCalls>>
    /\ UNCHANGED startupVars

\* ------------------------------------------------------------ startup actions
\* startServer: app.listen, then the one second wait
startServer ==
    /\ spc = "boot"
    /\ listening' = TRUE
    /\ spc' = "delay"
    /\ UNCHANGED <<warm, keepaliveActive, ticks, pingsIssued, pingInFlight, lastPing>>
    /\ UNCHANGED requestVars

\* warmupModel is entered and gets /api/version
warmupModel ==
    /\ spc = "delay"
    /\ spc' = "version"
    /\ UNCHANGED <<listening, warm, keepaliveActive, ticks, pingsIssued, pingInFlight, lastPing>>
    /\ UNCHANGED requestVars

\* the version call settles; on success /api/tags is requested
warmupVersion ==
    /\ spc = "version"
    /\ \E ok \in BOOLEAN :
        IF ok
        THEN /\ warm' = [warm EXCEPT !.version = "ok"]
             /\ spc' = "tags"
        ELSE /\ warm' = [warm EXCEPT !.version = "fail"]
             /\ spc' = "degraded"
    /\ UNCHANGED <<listening, keepaliveActive, ticks, pingsIssued, pingInFlight, lastPing>>
    /\ UNCHANGED requestVars

\* the tags call settles; the model is looked up and the warmup generation posted
warmupTags ==
    /\ spc = "tags"
    /\ \/ /\ warm' = [warm EXCEPT !.tags = "fail"]
          /\ spc' = "degraded"
       \/ \E models \in TagListings :
            /\ warm' = [warm EXCEPT !.tags = "ok", !.models = models]
            /\ spc' = IF modelExists(models) THEN "generate" ELSE "degraded"
    /\ UNCHANGED <<listening, keepaliveActive, ticks, pingsIssued, pingInFlight, lastPing>>
    /\ UNCHANGED requestVars

\* the warmup generation settles; startServer starts the keepalive on success
warmupGenerate ==
    /\ spc = "generate"
    /\ \E ok \in BOOLEAN :
        IF ok
        THEN /\ warm' = [warm EXCEPT !.generate = "ok"]
             /\ keepaliveActive' = TRUE
             /\ spc' = "ready"
        ELSE /\ warm' = [warm EXCEPT !.generate = "fail"]
             /\ keepaliveActive' = FALSE
             /\ spc' = "degraded"
    /\ UNCHANGED <<listening, ticks, pingsIssued, pingInFlight, lastPing>>
    /\ UNCHANGED requestVars

\* the setInterval callback fires and posts the ping (the 30 s timeout of a
\* ping settles it long before the next 10 min tick)
keepaliveTick ==
    /\ keepaliveActive
    /\ ~pingInFlight
    /\ ticks < MaxTicks
    /\ ticks' = ticks + 1
    /\ pingsIssued' = pingsIssued + 1
    /\ pingInFlight' = TRUE
    /\ UNCHANGED <<spc, listening, warm, keepaliveActive, lastPing>>
    /\ UNCHANGED requestVars

\* the ping settles: logged on success, warned on failure
keepaliveSettled ==
    /\ pingInFlight
    /\ \E r \in {"ok", "fail"} : lastPing' = r
    /\ pingInFlight' = FALSE
    /\ UNCHANGED <<spc, listening, warm, keepaliveActive, ticks, pingsIssued>>
    /\ UNCHANGED requestVars

Next ==
    \/ Receive
    \/ Close
    \/ validateToken
    \/ proxyHandler
    \/ proxyHandlerResolved
    \/ proxyHandlerRejected
    \/ startServer
    \/ warmupModel
    \/ warmupVersion
    \/ warmupTags
    \/ warmupGenerate
    \/ keepaliveTick
    \/ keepaliveSettled

Spec == Init /\ [][Next]_vars

\* ---------------------------------------------------------------- properties
\* the request in hand went through proxyHandler to the backend
Forwarded == handlerRan /\ rpc \in {"awaiting", "done"}

ValidCredential == req.auth.present /\ req.auth.value = <<"Bearer", " ", "tok">>

GenerateOrChat ==
    /\ req.method = "POST"
    /\ ReqPath(req.url) \in {ApiPath("generate"), ApiPath("chat")}

CallerStreamTrue == ("stream" \in DOMAIN req.body) /\ (req.body["stream"] = "true")

CallerOptionKeys ==
    IF ("options" \in DOMAIN req.body) /\ (req.body["options"].kind = "object")
    THEN DOMAIN req.body["options"].map
    ELSE {}

\* C1: a request to a protected route whose Authorization header is absent
\* or is not exactly 'Bearer <token>' is answered 401 with no backend call,
\* and proxyHandler runs only after validateToken called next().
C1_UnauthorizedIs401 ==
    /\ (rpc \notin {"idle", "gate"} /\ ~ValidCredential) =>
          /\ rpc = "done"
          /\ res.statusCode = 401
          /\ sent = 1
          /\ backendCalls = 0
          /\ ~nextCalled
          /\ ~handlerRan
    /\ handlerRan => nextCalled
    /\ (backendCalls > 0) => handlerRan

C1_Witness ==
    /\ rpc = "done"
    /\ req.method = "POST"
    /\ req.auth = [present |-> TRUE, value |-> <<"bearer", " ", "tok">>]
    /\ res.statusCode = 401
    /\ backendCalls = 0

\* C2: for a POST to /api/generate or /api/chat the forwarded body has
\* stream true exactly when the caller's body has stream exactly true;
\* otherwise it has stream false and the call is made in buffered mode.
C2_StreamOnlyWhenExactlyTrue ==
    (Forwarded /\ GenerateOrChat) =>
        /\ axiosConfig.hasData
        /\ "stream" \in DOMAIN axiosConfig.data
        /\ axiosConfig.data["stream"] = (IF CallerStreamTrue THEN "true" ELSE "false")
        /\ (~CallerStreamTrue) => (axiosConfig.responseType = "json")
        /\ (~CallerStreamTrue /\ rpc = "done" /\ outcome.kind = "ok") => (res.via = "json")

C2_Witness ==
    /\ rpc = "awaiting"
    /\ GenerateOrChat
    /\ "stream" \in DOMAIN req.body
    /\ req.body["stream"] = "\"true\""
    /\ axiosConfig.data["stream"] = "false"
    /\ axiosConfig.responseType = "json"

\* C3: for a POST to /api/generate or /api/chat the forwarded options are the
\* per-key merge of the defaults with the caller's options: caller keys carry
\* the caller's values, omitted default keys carry the defaults, no other key
\* appears, and a body without options gets exactly the defaults.
C3_CallerOptionsWin ==
    (Forwarded /\ GenerateOrChat) =>
        /\ "options" \in DOMAIN axiosConfig.data
        /\ axiosConfig.data["options"].kind = "object"
        /\ LET out == axiosConfig.data["options"].map
           IN  /\ DOMAIN out = (DOMAIN getOptimizedParams) \union CallerOptionKeys
               /\ \A k \in CallerOptionKeys : out[k] = req.body["options"].map[k]
               /\ \A k \in (DOMAIN getOptimizedParams) \ CallerOptionKeys :
                     out[k] = getOptimizedParams[k]
               /\ ("options" \notin DOMAIN req.body) => (out = getOptimizedParams)

C3_Witness ==
    /\ rpc = "awaiting"
    /\ GenerateOrChat
    /\ CallerOptionKeys = {"temperature", "seed"}
    /\ axiosConfig.data["options"].map["temperature"] = "0.2"
    /\ axiosConfig.data["options"].map["seed"] = "42"
    /\ axiosConfig.data["options"].map["num_ctx"] = "4096"

\* C4: for every POST route other than generate and chat (blobs with every
\* digest included) the body reaching the backend is the body received.
C4_OtherPostBodiesUntouched ==
    (Forwarded /\ req.method = "POST" /\ ~GenerateOrChat) =>
        (axiosConfig.hasData /\ axiosConfig.data = req.body)

ConnectFailure ==
    /\ outcome.kind = "neterr"
    /\ outcome.code \in {"ECONNREFUSED", "EHOSTUNREACH", "ENOTFOUND"}

\* C5 (as stated): whenever the backend is unreachable, by connection refusal
\* or any other connect-level failure, the response is 503 with a JSON body.
C5_EveryConnectFailureIs503 ==
    (rpc = "done" /\ ConnectFailure) =>
        (res.statusCode = 503 /\ res.via = "json" /\ sent = 1)

\* C5 (amended): when the backend refuses the connection (ECONNREFUSED) the
\* response is 503 with the JSON service-unavailable message, in streaming
\* and in buffered mode; any other connect-level failure is answered 500
\* with the JSON internal-error message.
C5_RefusedIs503 ==
    (rpc = "done" /\ outcome.kind = "neterr") =>
        /\ sent = 1
        /\ res.via = "json"
        /\ (outcome.code = "ECONNREFUSED") =>
              (res.statusCode = 503 /\ res.body = "service-unavailable")
        /\ (outcome.code # "ECONNREFUSED") =>
              (res.statusCode = 500 /\ res.body = "internal-server-error")

C5_Witness ==
    /\ rpc = "done"
    /\ outcome.code = "ECONNREFUSED"
    /\ axiosConfig.responseType = "stream"
    /\ res.statusCode = 503
    /\ res.body = "service-unavailable"

\* C6: when the backend answers with a non-2xx status the client receives
\* that status and the backend's body, in streaming and in buffered mode.
C6_BackendErrorRelayed ==
    (rpc = "done" /\ outcome.kind = "status") =>
        /\ sent = 1
        /\ res.statusCode = outcome.status
        /\ res.body = "ollama-error-body"

\* C7: the outbound request has the inbound method and its URL is the
\* backend base URL followed by the original path with its query string.
C7_MethodPathQueryMirrored ==
    Forwarded =>
        /\ axiosConfig.method = req.method
        /\ axiosConfig.url = OLLAMA_URL \o req.url

\* C8: a buffered request the backend answers with a 2xx status is answered
\* with that status and the backend's body as one JSON response.
C8_SuccessStatusRelayed ==
    (rpc = "done" /\ outcome.kind = "ok" /\ axiosConfig.responseType = "json") =>
        /\ sent = 1
        /\ res.via = "json"
        /\ res.body = "ollama-body"
        /\ res.statusCode = outcome.status

MatchingNames == { <<"mistral", ":", "7b">>, <<"mistral", ":", "7b", ":", "q4">> }

AllWarmupStepsSucceeded ==
    /\ warm.version = "ok"
    /\ warm.tags = "ok"
    /\ warm.models \cap MatchingNames # {}
    /\ warm.generate = "ok"

C9_Lifecycle ==
    /\ keepaliveActive <=> AllWarmupStepsSucceeded
    /\ keepaliveActive <=> (spc = "ready")
    /\ (spc = "degraded") =>
          \/ warm.version = "fail"
          \/ warm.tags = "fail"
          \/ (warm.tags = "ok" /\ warm.models \cap MatchingNames = {})
          \/ warm.generate = "fail"
    /\ (spc # "boot") => listening
    /\ ticks = pingsIssued
    /\ (ticks > 0) => keepaliveActive

C9_Step ==
    /\ listening => listening'
    /\ keepaliveActive => keepaliveActive'
    /\ (spc \in {"degraded", "ready"}) => (spc' = spc)
    /\ (ticks' # ticks) => (ticks' = ticks + 1 /\ pingsIssued' = pingsIssued + 1)

\* C9: startup goes Starting -> (WarmupFailed | WarmupSucceeded ->
\* KeepaliveActive): the keepalive timer is started exactly when the version
\* call, the model lookup (exact name or name plus ':' prefix) and the warmup
\* generation all succeeded; the server stays listening in every outcome;
\* and once active the timer stays active and every tick posts a ping,
\* whatever the earlier pings did.
C9_StartupLifecycle == [](C9_Lifecycle) /\ [][C9_Step]_vars

C9_Witness ==
    /\ spc = "ready"
    /\ keepaliveActive
    /\ warm.models = { <<"llama3">>, <<"mistral", ":", "7b", ":", "q4">> }
    /\ lastPing = "fail"
    /\ pingInFlight
    /\ pingsIssued >= 2
    /\ rpc = "done"
    /\ sent = 1

\* C10: every accepted request ends with exactly one response and at most
\* one backend call, for every auth result, mode and backend outcome.
C10_ExactlyOneResponse ==
    /\ backendCalls <= 1
    /\ sent <= 1
    /\ (rpc = "done") => (sent = 1)

====
